---- MODULE Spec2Model ----
(***************************************************************************)
(* State machine of the DraftAI editor component (frontend/src/App.js):    *)
(* the React state of App, the async handlers saveDraft, deleteDraft,      *)
(* generateAIContent and fetchDrafts split at their awaits, and the remote *)
(* draft store and generation service they talk to.                        *)
(*                                                                         *)
(* Strings are sequences of one-character strings, so that trim() and      *)
(* concatenation are computed and not assumed.                             *)
(***************************************************************************)
EXTENDS Integers, Sequences, FiniteSets, TLC

\* ---------------------------------------------------------------- bounds
\* Largest number of network-backed operations (save, delete, generate past
\* their validation) the user starts in one run.
MaxOps == 2
\* Largest number of handler invocations in flight at once.
MaxTasks == 2

\* max_tokens sent with every generation request.
MaxTokens == 150

\* ---------------------------------------------------------------- values
\* What the user can type into the title, content and prompt fields.
TitleInputs == { <<>>, <<" ", "\n">>, <<"T">> }
ContentInputs == { <<>>, <<"C">> }
PromptInputs == { <<>>, <<" ">>, <<"P">> }
\* What the generation service can answer.
GenTexts == { <<"G">>, <<"H">> }

\* What the remote store can hold when the page is opened.
StoredDrafts == << [id |-> 1, title |-> <<"T">>, content |-> <<"C">>] >>
InitialStores == { SubSeq(StoredDrafts, 1, n) : n \in 0..Len(StoredDrafts) }

\* JavaScript null in the error slot, and in currentDraft.
Null == "null"
NoDraft == [id |-> 0, title |-> <<>>, content |-> <<>>]

MsgFetch == "Failed to fetch drafts"
MsgTitle == "Please enter a title for your draft"
MsgSave == "Failed to save draft"
MsgDelete == "Failed to delete draft"
MsgPrompt == "Please enter a prompt for AI generation"
MsgGenerate == "Failed to generate AI content"

VARIABLES
    drafts,        \* useState([])    : the cached draft list
    currentDraft,  \* useState(null)  : the Draft the session is bound to
    title,         \* useState('')
    content,       \* useState('')
    isLoading,     \* useState(false)
    error,         \* useState(null)
    aiPrompt,      \* useState('')
    isGenerating,  \* useState(false)
    tasks,         \* handler invocations suspended at an await, oldest first
    remote,        \* the remote store's draft list
    nextId,        \* the next id the remote store assigns
    nOps           \* network-backed operations started so far

vars == << drafts, currentDraft, title, content, isLoading, error, aiPrompt,
           isGenerating, tasks, remote, nextId, nOps >>

\* ------------------------------------------------------------ strings
IsSpace(c) == c \in { " ", "\t", "\n", "\r" }

RECURSIVE TrimStart(_)
TrimStart(s) ==
    IF s = <<>> THEN <<>>
    ELSE IF IsSpace(Head(s)) THEN TrimStart(Tail(s)) ELSE s

RECURSIVE TrimEnd(_)
TrimEnd(s) ==
    IF s = <<>> THEN <<>>
    ELSE IF IsSpace(s[Len(s)]) THEN TrimEnd(SubSeq(s, 1, Len(s) - 1)) ELSE s

\* String.prototype.trim
Trim(s) == TrimEnd(TrimStart(s))

\* (mutant) the validation without trim()
IsBlankWhenEmpty(s) == s = <<>>

\* (mutant) the validation dropped
IsBlankNever(s) == FALSE

\* !title.trim() and !aiPrompt.trim(): the empty string is the falsy one
IsBlank(s) == Trim(s) = <<>>

\* ------------------------------------------------------------ requests
Req(method, id, t, c, prompt, maxTokens) ==
    [method |-> method, id |-> id, title |-> t, content |-> c,
     prompt |-> prompt, max_tokens |-> maxTokens]

GetDrafts == Req("GET", 0, <<>>, <<>>, <<>>, 0)
PostDraft(t, c) == Req("POST", 0, t, c, <<>>, 0)
PutDraft(id, t, c) == Req("PUT", id, t, c, <<>>, 0)
DeleteReq(id) == Req("DELETE", id, <<>>, <<>>, <<>>, 0)
PostGenerate(prompt) == Req("GENERATE", 0, <<>>, <<>>, prompt, MaxTokens)

Resp(ok, draft, list, text) ==
    [ok |-> ok, draft |-> draft, list |-> list, text |-> text]

NoResp == Resp(FALSE, NoDraft, <<>>, <<>>)
Failure == Resp(FALSE, NoDraft, <<>>, <<>>)

\* A handler invocation suspended at an await: `cd` is the currentDraft its
\* closure captured, `draftId` the argument of deleteDraft, `saved` the Draft
\* the PUT/POST of saveDraft returned (none yet: NoDraft).
Task(kind, cd, draftId, req) ==
    [kind |-> kind, cd |-> cd, draftId |-> draftId, pc |-> "request",
     req |-> req, resp |-> NoResp, saved |-> NoDraft]

\* How the await of task `t` can settle now: with the answer that was sent,
\* or, as long as none was, with a transport or HTTP failure.
Outcomes(t) == IF t.pc = "response" THEN { t.resp } ELSE { Failure }

Remove(s, i) == SubSeq(s, 1, i - 1) \o SubSeq(s, i + 1, Len(s))

Ids(list) == { list[k].id : k \in DOMAIN list }

Count(id, list) == Cardinality({ k \in DOMAIN list : list[k].id = id })

\* ------------------------------------------------------------ remote store
RECURSIVE Without(_, _)
Without(list, id) ==
    IF list = <<>> THEN <<>>
    ELSE IF Head(list).id = id THEN Without(Tail(list), id)
         ELSE <<Head(list)>> \o Without(Tail(list), id)

Replaced(list, d) ==
    [k \in DOMAIN list |-> IF list[k].id = d.id THEN d ELSE list[k]]

\* The remote store or the generation service answers request `req` of
\* tasks[i] with a success status.
Serve(i, req) ==
    \/ /\ req.method = "GET"
       /\ tasks' = [tasks EXCEPT ![i].pc = "response",
                                 ![i].resp = Resp(TRUE, NoDraft, remote, <<>>)]
       /\ UNCHANGED << remote, nextId >>
    \/ /\ req.method = "POST"
       /\ LET d == [id |-> nextId, title |-> req.title, content |-> req.content]
          IN /\ remote' = Append(remote, d)
             /\ tasks' = [tasks EXCEPT ![i].pc = "response",
                                       ![i].resp = Resp(TRUE, d, <<>>, <<>>)]
       /\ nextId' = nextId + 1
    \/ /\ req.method = "PUT"
       /\ req.id \in Ids(remote)
       /\ LET d == [id |-> req.id, title |-> req.title, content |-> req.content]
          IN /\ remote' = Replaced(remote, d)
             /\ tasks' = [tasks EXCEPT ![i].pc = "response",
                                       ![i].resp = Resp(TRUE, d, <<>>, <<>>)]
       /\ UNCHANGED nextId
    \/ /\ req.method = "DELETE"
       /\ remote' = Without(remote, req.id)
       /\ tasks' = [tasks EXCEPT ![i].pc = "response",
                                 ![i].resp = Resp(TRUE, NoDraft, <<>>, <<>>)]
       /\ UNCHANGED nextId
    \/ /\ req.method = "GENERATE"
       /\ \E text \in GenTexts :
            tasks' = [tasks EXCEPT ![i].pc = "response",
                                   ![i].resp = Resp(TRUE, NoDraft, <<>>, text)]
       /\ UNCHANGED << remote, nextId >>

Server ==
    \E i \in DOMAIN tasks :
        /\ tasks[i].pc = "request"
        /\ Serve(i, tasks[i].req)
        /\ UNCHANGED << drafts, currentDraft, title, content, isLoading, error,
                        aiPrompt, isGenerating, nOps >>

\* ------------------------------------------------------------ fetchDrafts
\* setDrafts(response.data) on success, the previous list on failure
DraftsAfterFetch(list, resp) == IF resp.ok THEN resp.list ELSE list

\* the error slot when fetchDrafts returns (it was cleared before the GET)
ErrorAfterFetch(err, resp) == IF resp.ok THEN err ELSE MsgFetch

\* the fetchDrafts() of the mount effect returns
FetchDone ==
    \E i \in DOMAIN tasks : \E resp \in Outcomes(tasks[i]) :
        /\ tasks[i].kind = "fetch"
        /\ drafts' = DraftsAfterFetch(drafts, resp)
        /\ error' = ErrorAfterFetch(error, resp)
        /\ tasks' = Remove(tasks, i)
        /\ UNCHANGED << currentDraft, title, content, isLoading, aiPrompt,
                        isGenerating, remote, nextId, nOps >>

\* ------------------------------------------------------------ local edits
SetTitle ==
    \E v \in TitleInputs :
        /\ title' = v
        /\ UNCHANGED << drafts, currentDraft, content, isLoading, error,
                        aiPrompt, isGenerating, tasks, remote, nextId, nOps >>

SetContent ==
    \E v \in ContentInputs :
        /\ content' = v
        /\ UNCHANGED << drafts, currentDraft, title, isLoading, error,
                        aiPrompt, isGenerating, tasks, remote, nextId, nOps >>

SetAiPrompt ==
    \E v \in PromptInputs :
        /\ aiPrompt' = v
        /\ UNCHANGED << drafts, currentDraft, title, content, isLoading, error,
                        isGenerating, tasks, remote, nextId, nOps >>

\* (mutant) createNewDraft abandoning the save that is pending
CreateNewDraftAbortsSave ==
    /\ currentDraft' = NoDraft
    /\ title' = <<>>
    /\ content' = <<>>
    /\ error' = Null
    /\ tasks' = SelectSeq(tasks, LAMBDA t : t.kind # "save")
    /\ isLoading' = FALSE
    /\ UNCHANGED << drafts, aiPrompt, isGenerating, remote, nextId, nOps >>

CreateNewDraft ==
    /\ currentDraft' = NoDraft
    /\ title' = <<>>
    /\ content' = <<>>
    /\ error' = Null
    /\ UNCHANGED << drafts, isLoading, aiPrompt, isGenerating, tasks, remote,
                    nextId, nOps >>

\* (mutant) loadDraft without its setError(null)
LoadDraftKeepsError ==
    \E k \in DOMAIN drafts :
        /\ currentDraft' = drafts[k]
        /\ title' = drafts[k].title
        /\ content' = drafts[k].content
        /\ UNCHANGED << drafts, isLoading, error, aiPrompt, isGenerating,
                        tasks, remote, nextId, nOps >>

\* (mutant) loadDraft abandoning the generations that are pending
LoadDraftAbortsGeneration ==
    \E k \in DOMAIN drafts :
        /\ currentDraft' = drafts[k]
        /\ title' = drafts[k].title
        /\ content' = drafts[k].content
        /\ error' = Null
        /\ tasks' = SelectSeq(tasks, LAMBDA t : t.kind # "generate")
        /\ isGenerating' = FALSE
        /\ UNCHANGED << drafts, isLoading, aiPrompt, remote, nextId, nOps >>

\* a click on an entry of the rendered list
LoadDraft ==
    \E k \in DOMAIN drafts :
        /\ currentDraft' = drafts[k]
        /\ title' = drafts[k].title
        /\ content' = drafts[k].content
        /\ error' = Null
        /\ UNCHANGED << drafts, isLoading, aiPrompt, isGenerating, tasks,
                        remote, nextId, nOps >>

\* ------------------------------------------------------------ saveDraft
\* (mutant) saveDraft without its currentDraft test: every save creates
SaveRequestAlwaysCreates(cd, t, c) == PostDraft(t, c)

\* the request saveDraft issues: update when bound, create when not
SaveRequest(cd, t, c) ==
    IF cd # NoDraft THEN PutDraft(cd.id, t, c) ELSE PostDraft(t, c)

\* (mutant) a Save button without disabled={isLoading}
SaveDraftNeverDisabled ==
    /\ IF IsBlank(title)
       THEN /\ error' = MsgTitle
            /\ UNCHANGED << isLoading, tasks, nOps >>
       ELSE /\ Len(tasks) < MaxTasks
            /\ nOps < MaxOps
            /\ nOps' = nOps + 1
            /\ isLoading' = TRUE
            /\ error' = Null
            /\ tasks' = Append(tasks,
                   Task("save", currentDraft, 0,
                        SaveRequest(currentDraft, title, content)))
    /\ UNCHANGED << drafts, currentDraft, title, content, aiPrompt,
                    isGenerating, remote, nextId >>

\* a click on Save (the button is disabled while isLoading)
SaveDraft ==
    /\ ~isLoading
    /\ IF IsBlank(title)
       THEN /\ error' = MsgTitle
            /\ UNCHANGED << isLoading, tasks, nOps >>
       ELSE /\ Len(tasks) < MaxTasks
            /\ nOps < MaxOps
            /\ nOps' = nOps + 1
            /\ isLoading' = TRUE
            /\ error' = Null
            /\ tasks' = Append(tasks,
                   Task("save", currentDraft, 0,
                        SaveRequest(currentDraft, title, content)))
    /\ UNCHANGED << drafts, currentDraft, title, content, aiPrompt,
                    isGenerating, remote, nextId >>

\* (mutant) saveDraft without setCurrentDraft(response.data)
BindingNeverAdopted(cd, resp) == cd

\* (mutant) saveDraft resetting currentDraft in its catch block
BindingDroppedOnFailure(cd, resp) == IF resp.ok THEN resp.draft ELSE NoDraft

\* currentDraft after the PUT/POST of saveDraft settled
BindingAfterSave(cd, resp) == IF resp.ok THEN resp.draft ELSE cd

\* the PUT/POST of saveDraft settles: bind and start fetchDrafts, or catch
SaveResponse ==
    \E i \in DOMAIN tasks : \E resp \in Outcomes(tasks[i]) :
        /\ tasks[i].kind = "save"
        /\ tasks[i].req.method # "GET"
        /\ currentDraft' = BindingAfterSave(currentDraft, resp)
        /\ IF resp.ok
           THEN /\ error' = Null
                /\ tasks' = [tasks EXCEPT ![i].pc = "request",
                                          ![i].req = GetDrafts,
                                          ![i].resp = NoResp,
                                          ![i].saved = resp.draft]
                /\ UNCHANGED isLoading
           ELSE /\ error' = MsgSave
                /\ isLoading' = FALSE
                /\ tasks' = Remove(tasks, i)
        /\ UNCHANGED << drafts, title, content, aiPrompt, isGenerating,
                        remote, nextId, nOps >>

\* the error slot after the statement that follows `await fetchDrafts()`
ErrorAfterSaveRefresh(err) == Null

\* the fetchDrafts() awaited by saveDraft returns; saveDraft finishes
SaveRefreshDone ==
    \E i \in DOMAIN tasks : \E resp \in Outcomes(tasks[i]) :
        /\ tasks[i].kind = "save"
        /\ tasks[i].req.method = "GET"
        /\ drafts' = DraftsAfterFetch(drafts, resp)
        /\ error' = ErrorAfterSaveRefresh(ErrorAfterFetch(error, resp))
        /\ isLoading' = FALSE
        /\ tasks' = Remove(tasks, i)
        /\ UNCHANGED << currentDraft, title, content, aiPrompt, isGenerating,
                        remote, nextId, nOps >>

\* ------------------------------------------------------------ deleteDraft
\* a click on the trash button of a listed draft, then window.confirm
DeleteDraft ==
    \E k \in DOMAIN drafts, confirmed \in BOOLEAN :
        IF ~confirmed
        THEN UNCHANGED vars
        ELSE /\ Len(tasks) < MaxTasks
             /\ nOps < MaxOps
             /\ nOps' = nOps + 1
             /\ error' = Null
             /\ tasks' = Append(tasks,
                    Task("delete", currentDraft, drafts[k].id,
                         DeleteReq(drafts[k].id)))
             /\ UNCHANGED << drafts, currentDraft, title, content, isLoading,
                             aiPrompt, isGenerating, remote, nextId >>

\* (mutant) deleteDraft swallowing the failure of its DELETE
DeleteAlwaysContinues(resp) == TRUE

\* whether deleteDraft goes on past its `await axios.delete`
DeleteContinues(resp) == resp.ok

\* the DELETE settles: start fetchDrafts, or catch
DeleteResponse ==
    \E i \in DOMAIN tasks : \E resp \in Outcomes(tasks[i]) :
        /\ tasks[i].kind = "delete"
        /\ tasks[i].req.method = "DELETE"
        /\ IF DeleteContinues(resp)
           THEN /\ error' = Null
                /\ tasks' = [tasks EXCEPT ![i].pc = "request",
                                          ![i].req = GetDrafts,
                                          ![i].resp = NoResp]
           ELSE /\ error' = MsgDelete
                /\ tasks' = Remove(tasks, i)
        /\ UNCHANGED << drafts, currentDraft, title, content, isLoading,
                        aiPrompt, isGenerating, remote, nextId, nOps >>

\* (mutant) the reset test without its id comparison
DeleteResetsWhenBound(cd, draftId) == cd # NoDraft

\* currentDraft && currentDraft.id === draftId, on the closure's currentDraft
DeleteResets(cd, draftId) == cd # NoDraft /\ cd.id = draftId

\* the fetchDrafts() awaited by deleteDraft returns; deleteDraft finishes
DeleteRefreshDone ==
    \E i \in DOMAIN tasks : \E resp \in Outcomes(tasks[i]) :
        /\ tasks[i].kind = "delete"
        /\ tasks[i].req.method = "GET"
        /\ drafts' = DraftsAfterFetch(drafts, resp)
        /\ IF DeleteResets(tasks[i].cd, tasks[i].draftId)
           THEN /\ currentDraft' = NoDraft
                /\ title' = <<>>
                /\ content' = <<>>
                /\ error' = Null
           ELSE /\ error' = ErrorAfterFetch(error, resp)
                /\ UNCHANGED << currentDraft, title, content >>
        /\ tasks' = Remove(tasks, i)
        /\ UNCHANGED << isLoading, aiPrompt, isGenerating, remote, nextId,
                        nOps >>

\* ------------------------------------------------------------ generateAIContent
\* (mutant) the generated text replacing the content
ReplaceByGenerated(prev, text) == text

\* setContent(prevContent => prevContent + '\n\n' + generatedText)
AppendGenerated(prev, text) == prev \o <<"\n", "\n">> \o text

\* (mutant) setAiPrompt('') moved to the finally block
PromptAlwaysCleared(prompt, resp) == <<>>

\* the prompt field after the generation request settled
PromptAfterGenerate(prompt, resp) == IF resp.ok THEN <<>> ELSE prompt

\* a click on Generate (disabled while isGenerating), or Enter in the prompt
\* field (never disabled)
GenerateAIContent ==
    \E viaButton \in BOOLEAN :
        /\ viaButton => ~isGenerating
        /\ IF IsBlank(aiPrompt)
           THEN /\ error' = MsgPrompt
                /\ UNCHANGED << isGenerating, tasks, nOps >>
           ELSE /\ Len(tasks) < MaxTasks
                /\ nOps < MaxOps
                /\ isGenerating' = TRUE
                /\ error' = Null
                /\ tasks' = Append(tasks,
                       Task("generate", NoDraft, 0, PostGenerate(aiPrompt)))
                /\ nOps' = nOps + 1
        /\ UNCHANGED << drafts, currentDraft, title, content, isLoading,
                        aiPrompt, remote, nextId >>

\* (mutant) the newest answer wins: a response that arrives drops the other
\* pending generation requests
GenerateResponseDropsOthers ==
    \E i \in DOMAIN tasks : \E resp \in Outcomes(tasks[i]) :
        /\ tasks[i].kind = "generate"
        /\ IF resp.ok
           THEN /\ content' = AppendGenerated(content, resp.text)
                /\ UNCHANGED error
           ELSE /\ error' = MsgGenerate
                /\ UNCHANGED content
        /\ aiPrompt' = PromptAfterGenerate(aiPrompt, resp)
        /\ isGenerating' = FALSE
        /\ tasks' = SelectSeq(tasks, LAMBDA t : t.kind # "generate")
        /\ UNCHANGED << drafts, currentDraft, title, isLoading, remote, nextId,
                        nOps >>

\* the generation request settles; generateAIContent finishes
GenerateResponse ==
    \E i \in DOMAIN tasks : \E resp \in Outcomes(tasks[i]) :
        /\ tasks[i].kind = "generate"
        /\ IF resp.ok
           THEN /\ content' = AppendGenerated(content, resp.text)
                /\ UNCHANGED error
           ELSE /\ error' = MsgGenerate
                /\ UNCHANGED content
        /\ aiPrompt' = PromptAfterGenerate(aiPrompt, resp)
        /\ isGenerating' = FALSE
        /\ tasks' = Remove(tasks, i)
        /\ UNCHANGED << drafts, currentDraft, title, isLoading, remote, nextId,
                        nOps >>

\* ------------------------------------------------------------ specification
\* The state after the first render and its mount effect: fetchDrafts() has
\* cleared the error slot and its GET is in flight.
Init ==
    /\ drafts = <<>>
    /\ currentDraft = NoDraft
    /\ title = <<>>
    /\ content = <<>>
    /\ isLoading = FALSE
    /\ error = Null
    /\ aiPrompt = <<>>
    /\ isGenerating = FALSE
    /\ tasks = << Task("fetch", NoDraft, 0, GetDrafts) >>
    /\ remote \in InitialStores
    /\ nextId = Len(remote) + 1
    /\ nOps = 0

Next ==
    \/ SetTitle
    \/ SetContent
    \/ SetAiPrompt
    \/ CreateNewDraft
    \/ LoadDraft
    \/ SaveDraft
    \/ SaveResponse
    \/ SaveRefreshDone
    \/ DeleteDraft
    \/ DeleteResponse
    \/ DeleteRefreshDone
    \/ GenerateAIContent
    \/ GenerateResponse
    \/ FetchDone
    \/ Server

Spec == Init /\ [][Next]_vars

\* ------------------------------------------------------------ properties
\* This step starts a handler invocation of kind `kind`.
Starts(kind) ==
    /\ Len(tasks') = Len(tasks) + 1
    /\ SubSeq(tasks', 1, Len(tasks)) = tasks
    /\ tasks'[Len(tasks')].kind = kind

\* The request this step sends for the handler invocation it starts.
Started == tasks'[Len(tasks')].req

\* This step resumes tasks[i] from its await: the invocation finishes, or goes
\* on to its next request.
Settles(i) ==
    \/ tasks' = Remove(tasks, i)
    \/ /\ Len(tasks') = Len(tasks)
       /\ tasks'[i] # tasks[i]
       /\ tasks'[i].pc = "request"
       /\ \A j \in DOMAIN tasks : j # i => tasks'[j] = tasks[j]

\* tasks[i] is resumed by this step with a failure / with the answer sent.
Fails(i) == tasks[i].pc = "request" /\ Settles(i)
Succeeds(i) == tasks[i].pc = "response" /\ Settles(i)

IsSaveCall(t) == t.kind = "save" /\ t.req.method \in { "POST", "PUT" }
IsSaveRefresh(t) == t.kind = "save" /\ t.req.method = "GET"
IsDeleteCall(t) == t.kind = "delete" /\ t.req.method = "DELETE"
IsDeleteRefresh(t) == t.kind = "delete" /\ t.req.method = "GET"

\* C1: a save started while the session is bound to a draft X sends exactly
\* one request, a PUT to X carrying the buffers, and no POST, whatever was
\* saved before.
C1_BoundSaveUpdates ==
    [][ (Starts("save") /\ currentDraft # NoDraft) =>
            /\ Started.method = "PUT"
            /\ Started.id = currentDraft.id
            /\ Started.title = title
            /\ Started.content = content
            /\ \A i \in DOMAIN tasks' : tasks'[i].req.method = "POST" =>
                   i \in DOMAIN tasks /\ tasks[i].req.method = "POST" ]_vars

\* C1 witness: the stored draft 1 was already updated by a save, the session
\* is bound to the draft that save returned, and a second save of it is in
\* flight as a PUT to 1.
C1_Witness ==
    \E i \in DOMAIN tasks :
        /\ IsSaveCall(tasks[i])
        /\ tasks[i].req.method = "PUT"
        /\ tasks[i].req.id = 1
        /\ currentDraft.id = 1
        /\ currentDraft # StoredDrafts[1]
        /\ \E k \in DOMAIN remote : remote[k] = currentDraft

\* C2: a save started on an unbound session with a non-blank title sends
\* exactly one request, a POST carrying the title and content buffers; when
\* that POST succeeds the session is bound to the draft it returned; and when
\* the refresh that save triggers succeeds, the id of the created draft is in
\* the cache exactly once (as long as the store still holds the draft: a
\* refresh mirrors the store).
C2_UnboundSaveCreates ==
    [][ /\ (Starts("save") /\ currentDraft = NoDraft) =>
              /\ Trim(title) # <<>>
              /\ tasks' = Append(tasks, Task("save", NoDraft, 0,
                                             PostDraft(title, content)))
        /\ \A i \in DOMAIN tasks :
              (IsSaveCall(tasks[i]) /\ tasks[i].req.method = "POST"
                 /\ Succeeds(i)) =>
                  /\ currentDraft' = tasks[i].resp.draft
                  /\ currentDraft'.id # 0
                  /\ tasks'[i].req = GetDrafts
        /\ \A i \in DOMAIN tasks :
              (IsSaveRefresh(tasks[i]) /\ tasks[i].cd = NoDraft /\ Succeeds(i)
                 /\ tasks[i].saved.id \in Ids(remote)) =>
                  Count(tasks[i].saved.id, drafts') = 1 ]_vars

\* C2 witness: draft 2 exists only as the result of a create of this run; the
\* save has finished, the session is bound to it and the cache lists it once.
C2_Witness ==
    /\ tasks = <<>>
    /\ currentDraft.id = 2
    /\ Count(2, drafts) = 1
    /\ Count(2, remote) = 1

\* C3: when the POST or PUT of a save fails, the binding, both buffers and the
\* cache are as before, the invocation ends without sending a refresh or a
\* second attempt, and the error slot holds the save-failure message.
C3_FailedSaveKeepsState ==
    [][ \A i \in DOMAIN tasks :
            (IsSaveCall(tasks[i]) /\ Fails(i)) =>
                /\ UNCHANGED << currentDraft, title, content, drafts >>
                /\ tasks' = Remove(tasks, i)
                /\ error' = MsgSave ]_vars

\* C3 witness: a failed update of the bound draft 1 has been reported.
C3_Witness ==
    /\ error = MsgSave
    /\ ~isLoading
    /\ currentDraft.id = 1
    /\ \A i \in DOMAIN tasks : tasks[i].kind # "save"

\* C4 (as claimed): when the refresh a successful save triggers fails, the
\* error slot holds the fetch-failure message once the save has finished, and
\* the session keeps the binding the save gave it.
C4_RefreshFailureReported ==
    [][ \A i \in DOMAIN tasks :
            (IsSaveRefresh(tasks[i]) /\ Fails(i)) =>
                /\ error' = MsgFetch
                /\ currentDraft' = currentDraft ]_vars

\* C5: a save with an empty or whitespace-only title sets the validation
\* message and changes nothing else: no request is sent, and the binding, the
\* buffers and the cache stay as they are; so no create or update request in
\* flight ever carries a blank title.
C5_BlankTitleRejected ==
    [][ /\ (SaveDraft /\ Trim(title) = <<>>) =>
              /\ error' = MsgTitle
              /\ UNCHANGED << drafts, currentDraft, title, content, isLoading,
                              aiPrompt, isGenerating, tasks, remote, nextId,
                              nOps >>
        /\ \A i \in DOMAIN tasks' :
              IsSaveCall(tasks'[i]) => Trim(tasks'[i].req.title) # <<>> ]_vars

\* C5 witness: Save was clicked on a whitespace-only title with nothing in
\* flight; the validation message is shown and nothing is in flight.
C5_Witness ==
    /\ error = MsgTitle
    /\ title = <<" ", "\n">>
    /\ tasks = <<>>
    /\ ~isLoading

\* C6: when deleteDraft(X) finishes after a successful DELETE, X is not in the
\* cache if the refresh succeeded; if the session was bound to X when the
\* delete was asked for, it is now unbound with both buffers empty, and
\* otherwise binding and buffers are as they were.
C6_DeleteRemovesAndResets ==
    [][ \A i \in DOMAIN tasks :
            (IsDeleteRefresh(tasks[i]) /\ Settles(i)) =>
                /\ tasks' = Remove(tasks, i)
                /\ tasks[i].pc = "response" => tasks[i].draftId \notin Ids(drafts')
                /\ IF tasks[i].cd.id = tasks[i].draftId
                   THEN currentDraft' = NoDraft /\ title' = <<>> /\ content' = <<>>
                   ELSE UNCHANGED << currentDraft, title, content >> ]_vars

\* C6 witness: the session is bound to draft 1 with its content in the buffer,
\* the DELETE of 1 asked for in that state succeeded, and the answer to the
\* refresh is about to be applied to a cache that still lists 1.
C6_Witness ==
    \E i \in DOMAIN tasks :
        /\ IsDeleteRefresh(tasks[i])
        /\ tasks[i].pc = "response"
        /\ tasks[i].draftId = 1
        /\ tasks[i].cd.id = 1
        /\ currentDraft.id = 1
        /\ content # <<>>
        /\ 1 \in Ids(drafts)

\* C7 (as claimed): once deleteDraft(X) has finished after a successful
\* DELETE, the session is not bound to X, whatever was loaded or saved while
\* the delete was pending.
C7_SessionNotBoundToDeleted ==
    [][ \A i \in DOMAIN tasks :
            (IsDeleteRefresh(tasks[i]) /\ Settles(i)) =>
                currentDraft'.id # tasks[i].draftId ]_vars

\* C8: when the DELETE of deleteDraft fails, the cache, the binding and both
\* buffers are as before, the invocation ends without sending a refresh, and
\* the error slot holds the delete-failure message.
C8_FailedDeleteKeepsState ==
    [][ \A i \in DOMAIN tasks :
            (IsDeleteCall(tasks[i]) /\ Fails(i)) =>
                /\ UNCHANGED << drafts, currentDraft, title, content >>
                /\ tasks' = Remove(tasks, i)
                /\ error' = MsgDelete ]_vars

\* C8 witness: a failed delete of the bound draft 1 has been reported, with
\* the draft still listed and the session still bound to it.
C8_Witness ==
    /\ error = MsgDelete
    /\ tasks = <<>>
    /\ currentDraft.id = 1
    /\ 1 \in Ids(drafts)

\* C9: when a generation request succeeds, the new content is the content of
\* that moment, then exactly "\n\n", then the generated text: the old content
\* is a verbatim prefix and nothing else is added or dropped; the prompt
\* field is emptied.
C9_GeneratedTextAppended ==
    [][ \A i \in DOMAIN tasks :
            (tasks[i].kind = "generate" /\ Succeeds(i)) =>
                LET text == tasks[i].resp.text
                    n == Len(content)
                IN /\ Len(content') = n + 2 + Len(text)
                   /\ SubSeq(content', 1, n) = content
                   /\ SubSeq(content', n + 1, n + 2) = <<"\n", "\n">>
                   /\ SubSeq(content', n + 3, Len(content')) = text
                   /\ text \in GenTexts
                   /\ aiPrompt' = <<>> ]_vars

\* C9 witness: the text G was appended to the non-empty content C.
C9_Witness ==
    /\ content = <<"C", "\n", "\n", "G">>
    /\ aiPrompt = <<>>
    /\ ~isGenerating

\* C10: when a generation request fails, the content buffer and the prompt
\* field are as before, the invocation ends without a second request, and the
\* error slot holds the generation-failure message.
C10_FailedGenerateKeepsState ==
    [][ \A i \in DOMAIN tasks :
            (tasks[i].kind = "generate" /\ Fails(i)) =>
                /\ UNCHANGED << content, aiPrompt >>
                /\ tasks' = Remove(tasks, i)
                /\ error' = MsgGenerate ]_vars

\* C10 witness: a failed generation has been reported and the prompt is still
\* in its field, next to content that was typed before.
C10_Witness ==
    /\ error = MsgGenerate
    /\ aiPrompt = <<"P">>
    /\ content = <<"C">>
    /\ tasks = <<>>

\* C11: a generate with an empty or whitespace-only prompt sets the validation
\* message and changes nothing else: no request is sent and the content
\* buffer stays as it is; so no generation request in flight ever carries a
\* blank prompt.
C11_BlankPromptRejected ==
    [][ /\ (GenerateAIContent /\ Trim(aiPrompt) = <<>>) =>
              /\ error' = MsgPrompt
              /\ UNCHANGED << drafts, currentDraft, title, content, isLoading,
                              aiPrompt, isGenerating, tasks, remote, nextId,
                              nOps >>
        /\ \A i \in DOMAIN tasks' :
              tasks'[i].kind = "generate" =>
                  Trim(tasks'[i].req.prompt) # <<>> ]_vars

\* C11 witness: generate was asked for with a whitespace-only prompt; the
\* validation message is shown, the typed content is intact and nothing is
\* in flight.
C11_Witness ==
    /\ error = MsgPrompt
    /\ aiPrompt = <<" ">>
    /\ content = <<"C">>
    /\ tasks = <<>>
    /\ ~isGenerating

\* C12 (as claimed): once a newer operation has been started, the error slot
\* never receives the failure message of a user-initiated operation started
\* before it.
C12_NoMessageOfEarlierOperation ==
    [][ \A i \in DOMAIN tasks :
            (tasks[i].kind # "fetch" /\ Fails(i) /\ i < Len(tasks)) =>
                error' \notin { MsgFetch, MsgSave, MsgDelete, MsgGenerate } ]_vars

\* C12 (amended): every user-initiated operation clears the error slot when
\* it starts: new draft and load leave it null, delete leaves it null once
\* confirmed, save and generate leave it null or, when their own validation
\* fails, holding their own validation message; so no message that was in
\* the slot before the operation survives its start.
C12_ErrorClearedAtStart ==
    [][ /\ CreateNewDraft => error' = Null
        /\ LoadDraft => error' = Null
        /\ SaveDraft =>
              error' = IF Trim(title) = <<>> THEN MsgTitle ELSE Null
        /\ DeleteDraft => (error' = Null \/ UNCHANGED vars)
        /\ GenerateAIContent =>
              error' = IF Trim(aiPrompt) = <<>> THEN MsgPrompt ELSE Null ]_vars

\* C12 witness: the failure of an earlier save is shown, nothing is in flight,
\* and the user can start a new attempt of each kind (the cache lists a draft
\* to load or delete, title and prompt are filled in).
C12_Witness ==
    /\ error = MsgSave
    /\ tasks = <<>>
    /\ drafts # <<>>
    /\ Trim(title) # <<>>
    /\ Trim(aiPrompt) # <<>>
    /\ nOps < MaxOps

\* C13 (as claimed): when a refresh succeeds the cache becomes the list the
\* store returned; when it fails the cache is as before, the error slot holds
\* the fetch-failure message once the refresh has returned, and no second GET
\* is sent.
C13_RefreshReplacesOrReports ==
    [][ \A i \in DOMAIN tasks :
            (tasks[i].req.method = "GET" /\ Settles(i)) =>
                /\ tasks' = Remove(tasks, i)
                /\ IF tasks[i].pc = "response"
                   THEN drafts' = tasks[i].resp.list
                   ELSE drafts' = drafts /\ error' = MsgFetch ]_vars

\* The cache part of C13 alone: wholesale replacement on success, the
\* previous snapshot on failure, and no retry.
C13_CacheReplacedOrRetained ==
    [][ \A i \in DOMAIN tasks :
            (tasks[i].req.method = "GET" /\ Settles(i)) =>
                /\ tasks' = Remove(tasks, i)
                /\ IF tasks[i].pc = "response"
                   THEN drafts' = tasks[i].resp.list
                   ELSE drafts' = drafts ]_vars

\* The report part of C13 for the refresh of the mount effect, which no
\* caller follows up: its failure message is in the slot when it returns.
C13_MountRefreshReported ==
    [][ \A i \in DOMAIN tasks :
            (tasks[i].kind = "fetch" /\ Fails(i)) => error' = MsgFetch ]_vars

\* C14: generation requests overlap freely. A generate asked for with a
\* non-blank prompt while others are pending sends its own request at once
\* and leaves the pending ones alone; every answered request can be resumed
\* whatever its position among the pending ones; resuming one finishes that
\* invocation only, and on success appends its text to the content of that
\* moment, so texts pile up in arrival order and none replaces another.
C14_OverlappingGenerations ==
    [][ /\ Starts("generate") =>
              tasks' = Append(tasks, Task("generate", NoDraft, 0,
                                          PostGenerate(aiPrompt)))
        /\ \A i \in DOMAIN tasks :
              (tasks[i].kind = "generate" /\ tasks[i].pc = "response") =>
                  ENABLED (GenerateResponse /\ tasks' = Remove(tasks, i))
        /\ \A i \in DOMAIN tasks :
              (tasks[i].kind = "generate" /\ Settles(i)) =>
                  /\ tasks' = Remove(tasks, i)
                  /\ content' = IF tasks[i].pc = "response"
                                THEN content \o <<"\n", "\n">> \o tasks[i].resp.text
                                ELSE content ]_vars

\* C14 witness: two generation requests are pending at once, both answered,
\* with different texts; the younger one's text differs from the older one's,
\* so the two arrival orders give different contents.
C14_Witness ==
    /\ Len(tasks) = 2
    /\ tasks[1].kind = "generate" /\ tasks[1].pc = "response"
    /\ tasks[2].kind = "generate" /\ tasks[2].pc = "response"
    /\ tasks[1].resp.text # tasks[2].resp.text

\* C14 witness of an out-of-order arrival: the content ends with the text of
\* one response while an answered request is still pending.
C14_WitnessLaterFirst ==
    /\ Len(tasks) = 1
    /\ tasks[1].kind = "generate" /\ tasks[1].pc = "response"
    /\ tasks[1].resp.text = <<"G">>
    /\ content = <<"C", "\n", "\n", "H">>
    /\ nOps = 2

\* C15 (as claimed): nothing excludes overlapping saves: while a save of an
\* unbound session is pending, a second save of it can be started.
C15_SecondSaveCanStart ==
    \A i \in DOMAIN tasks :
        (IsSaveCall(tasks[i]) /\ currentDraft = NoDraft /\ Trim(title) # <<>>
           /\ Len(tasks) < MaxTasks /\ nOps < MaxOps) =>
            ENABLED (SaveDraft /\ Starts("save"))

\* C15 (amended): saves exclude one another: isLoading is true exactly while
\* a save invocation is pending, and at most one save invocation, hence at
\* most one create request, is pending at any time.
C15_AtMostOneSaveInFlight ==
    /\ Cardinality({ i \in DOMAIN tasks : tasks[i].kind = "save" }) <= 1
    /\ isLoading <=> \E i \in DOMAIN tasks : tasks[i].kind = "save"

\* C15 witness: the create request of a save is pending, the session is still
\* unbound with a non-blank title, and the bounds would allow another
\* operation to start.
C15_Witness ==
    /\ \E i \in DOMAIN tasks :
           IsSaveCall(tasks[i]) /\ tasks[i].req.method = "POST"
    /\ currentDraft = NoDraft
    /\ Trim(title) # <<>>
    /\ Len(tasks) < MaxTasks
    /\ nOps < MaxOps

\* C16: a pending save is not aborted by a reset or a rebinding of the
\* session: new draft and load leave every pending invocation as it is, and
\* when the POST/PUT succeeds the binding becomes the Draft it returned,
\* whatever the session is bound to by then, while the buffers stay those the
\* later new draft or load left.
C16_PendingSaveStillApplied ==
    [][ /\ (CreateNewDraft \/ LoadDraft) => tasks' = tasks /\ isLoading' = isLoading
        /\ \A i \in DOMAIN tasks :
              (IsSaveCall(tasks[i]) /\ Succeeds(i)) =>
                  /\ currentDraft' = tasks[i].resp.draft
                  /\ UNCHANGED << title, content >> ]_vars

\* C16 witness: a save of an unbound session created draft 2 with content C;
\* while its POST was pending the stored draft 1 was loaded and the content
\* emptied; the answer is about to bind the session to draft 2.
C16_Witness ==
    \E i \in DOMAIN tasks :
        /\ IsSaveCall(tasks[i])
        /\ tasks[i].pc = "response"
        /\ tasks[i].cd = NoDraft
        /\ tasks[i].resp.draft.id = 2
        /\ currentDraft.id = 1
        /\ content # tasks[i].resp.draft.content

\* C17 (as claimed): the buffers are never re-synced from remote data. A
\* successful save, a refresh (answered or failed) and a delete of a draft the
\* session is not bound to leave title and content unchanged; right after a
\* load the buffers are the loaded Draft's; and the buffers change only by
\* setTitle, setContent, new draft, load, a successful generation, or the
\* reset that follows the deletion of the draft the session is bound to.
C17_BuffersNeverResynced ==
    [][ /\ \A i \in DOMAIN tasks :
              ( \/ IsSaveCall(tasks[i]) /\ Succeeds(i)
                \/ tasks[i].kind \in { "fetch", "save" }
                      /\ tasks[i].req.method = "GET" /\ Settles(i)
                \/ tasks[i].kind = "delete" /\ Settles(i)
                      /\ currentDraft.id # tasks[i].draftId ) =>
                  UNCHANGED << title, content >>
        /\ LoadDraft =>
              title' = currentDraft'.title /\ content' = currentDraft'.content
        /\ (title' # title \/ content' # content) =>
              \/ SetTitle \/ SetContent \/ CreateNewDraft \/ LoadDraft
              \/ \E i \in DOMAIN tasks :
                    tasks[i].kind = "generate" /\ Succeeds(i)
              \/ \E i \in DOMAIN tasks :
                    /\ IsDeleteRefresh(tasks[i]) /\ Settles(i)
                    /\ currentDraft.id = tasks[i].draftId ]_vars

\* C17, the part that holds: no answer of the store is copied into the
\* buffers. Save responses and refreshes leave them unchanged, a load sets
\* them to the loaded Draft's, and apart from the user's edits, new draft,
\* load and a successful generation, only the end of a deleteDraft empties
\* them, when the draft was the bound one at the time the delete was asked for.
C17_NoCopyFromRemote ==
    [][ /\ \A i \in DOMAIN tasks :
              ( \/ IsSaveCall(tasks[i]) /\ Succeeds(i)
                \/ tasks[i].kind \in { "fetch", "save" }
                      /\ tasks[i].req.method = "GET" /\ Settles(i)
                \/ tasks[i].kind = "delete" /\ Settles(i)
                      /\ tasks[i].cd.id # tasks[i].draftId ) =>
                  UNCHANGED << title, content >>
        /\ LoadDraft =>
              title' = currentDraft'.title /\ content' = currentDraft'.content
        /\ (title' # title \/ content' # content) =>
              \/ SetTitle \/ SetContent \/ CreateNewDraft \/ LoadDraft
              \/ \E i \in DOMAIN tasks :
                    tasks[i].kind = "generate" /\ Succeeds(i)
              \/ \E i \in DOMAIN tasks :
                    /\ IsDeleteRefresh(tasks[i]) /\ Settles(i)
                    /\ tasks[i].cd.id = tasks[i].draftId
                    /\ title' = <<>> /\ content' = <<>> ]_vars

\* C18 (as claimed): once every issued request has resolved with every refresh
\* answered, the cache is the store's current list: the answer to a refresh
\* that leaves no request pending never installs a snapshot older than the
\* store, such as one still holding a deleted draft, over a cache that a
\* later refresh had brought up to date.
C18_QuiescentCacheIsRemote ==
    [][ \A i \in DOMAIN tasks :
            (tasks[i].req.method = "GET" /\ Succeeds(i) /\ tasks' = <<>>
               /\ drafts = remote) =>
                drafts' = remote ]_vars

\* C18, what the code does: the answer to a refresh installs the snapshot the
\* store gave for that request, in arrival order, whatever was installed since.
C18_SnapshotInstalledOnArrival ==
    [][ \A i \in DOMAIN tasks :
            (tasks[i].req.method = "GET" /\ Succeeds(i)) =>
                drafts' = tasks[i].resp.list ]_vars

\* C19 (as claimed): isGenerating is true whenever a generation request is
\* pending and isLoading is true whenever a save (its refresh included) is
\* pending; a flag goes back to false only when no such request remains.
C19_FlagsCoverPendingRequests ==
    /\ (\E i \in DOMAIN tasks : tasks[i].kind = "generate") => isGenerating
    /\ (\E i \in DOMAIN tasks : tasks[i].kind = "save") => isLoading

\* C19, the part that holds: isLoading is true exactly while a save is
\* pending, and isGenerating is false when no generation is pending.
C19_LoadingCoversSave ==
    /\ isLoading <=> \E i \in DOMAIN tasks : tasks[i].kind = "save"
    /\ isGenerating => \E i \in DOMAIN tasks : tasks[i].kind = "generate"

\* C20: the text of a generation is merged into the content buffer as it is
\* when the response arrives. The request carries no content; editing the
\* content, new draft and load leave the pending generations pending; and on
\* success the buffer becomes its value of that moment, then "\n\n", then the
\* generated text, with the binding and the title untouched.
C20_MergedIntoCurrentContent ==
    [][ /\ Starts("generate") =>
              Started.content = <<>> /\ UNCHANGED << content >>
        /\ (SetContent \/ CreateNewDraft \/ LoadDraft) =>
              tasks' = tasks /\ isGenerating' = isGenerating
        /\ \A i \in DOMAIN tasks :
              (tasks[i].kind = "generate" /\ Succeeds(i)) =>
                  /\ content' = content \o <<"\n", "\n">> \o tasks[i].resp.text
                  /\ UNCHANGED << currentDraft, title >> ]_vars

\* C20 witness: a generation is answered and not yet applied. A delete of the
\* then bound draft 1 was asked for after the generation started, the session
\* was reset after that, and C was typed after the reset: the buffer the text
\* will be appended to was written while the generation was pending.
C20_Witness ==
    /\ Len(tasks) = 2
    /\ tasks[1].kind = "generate" /\ tasks[1].pc = "response"
    /\ tasks[2].kind = "delete" /\ tasks[2].cd.id = 1
    /\ currentDraft = NoDraft
    /\ content = <<"C">>

====
